---- MODULE Spec2Model ----
(***************************************************************************)
(* PORTIX build system (scripts/build.py): the image construction steps of *)
(* main() as a state machine over the files they read and write.           *)
(*                                                                         *)
(* A file's contents are a sequence of runs of bytes (a run of one         *)
(* repeated byte, a run counting up modulo 256, or literal bytes), so that *)
(* images of several megabytes are states TLC can hold; every read, write  *)
(* and comparison below is defined on the bytes the runs stand for.        *)
(***************************************************************************)
EXTENDS Integers, Sequences, FiniteSets, TLC

\* fs: the files under build/; pc: the step main() runs next; ks: the kernel
\* sector count build_kernel returned; rc: the exit status; log: the warnings
\* and errors logged; env: the command line, the tools on the PATH and what an
\* earlier build left; stage2_defs: the -D definitions given to nasm for the
\* loader; iso_by: the strategy that wrote the optical image; iso_runs: the
\* external optical tools run, in order, with what run_safe returned; part:
\* the partition entry last computed by _inject_partition_table; qemu: the
\* emulator process of each thread of run_qemu
VARIABLES fs, pc, ks, rc, log, env, stage2_defs, iso_by, iso_runs, part, qemu

vars == <<fs, pc, ks, rc, log, env, stage2_defs, iso_by, iso_runs, part, qemu>>

(***************************************************************************)
(* Bounds of the model.                                                    *)
(***************************************************************************)
\* kernel.bin sizes are taken within MaxDelta bytes of each sector boundary
\* of KernelSectorBases
MaxDelta == 1
\* the injector alone is applied to every image of 1..MaxInjectSectors sectors
MaxInjectSectors == 48
\* the CHS fields are computed for kernels of up to MaxChsDelta sectors more
\* than each of ChsKernelBases
MaxChsDelta == 30

(***************************************************************************)
(* Paths (build.py 49-70).                                                 *)
(***************************************************************************)
DISK_IMG  == "build/portix.img"
BOOTBIN   == "build/boot.bin"
STAGE2BIN == "build/stage2.bin"
KERNELBIN == "build/kernel.bin"
ISROBJ    == "build/isr.o"
ISO_IMG   == "build/dist/portix.iso"
VDI_IMG   == "build/dist/portix.vdi"
VMDK_IMG  == "build/dist/portix.vmdk"
RAW_COPY  == "build/dist/portix.img"
VSIM_IMG  == "build/dist/portix-ventoy-sim.img"

Paths == {DISK_IMG, BOOTBIN, STAGE2BIN, KERNELBIN, ISROBJ,
          ISO_IMG, VDI_IMG, VMDK_IMG, RAW_COPY, VSIM_IMG}

(***************************************************************************)
(* Disk layout (build.py 75-81).                                           *)
(***************************************************************************)
STAGE2_SECTORS   == 64
KERNEL_LBA_START == 1 + STAGE2_SECTORS
KERNEL_MARGIN    == 64
DISK_MIN_MB      == 8

VENTOY_SIM_OFFSET_SECTORS == 2048
VENTOY_SIM_DISK_MB        == 64

MiB == 1024 * 1024

(***************************************************************************)
(* Bytes and runs of bytes.                                                *)
(***************************************************************************)
Byte == 0..255

Fill(n, b) == [k |-> "fill", n |-> n, b |-> b, bytes |-> <<>>]
Ramp(n, b) == [k |-> "ramp", n |-> n, b |-> b, bytes |-> <<>>]
Lit(s)     == [k |-> "lit", n |-> Len(s), b |-> 0, bytes |-> s]

\* the byte at index i (from 0) of run r
RunByte(r, i) ==
    CASE r.k = "fill" -> r.b
      [] r.k = "ramp" -> (r.b + i) % 256
      [] r.k = "lit"  -> r.bytes[i + 1]

\* the first m bytes of run r, and what follows them
RunTake(r, m) ==
    CASE r.k = "lit" -> Lit(SubSeq(r.bytes, 1, m))
      [] OTHER       -> [r EXCEPT !.n = m]

RunDrop(r, m) ==
    CASE r.k = "lit"  -> Lit(SubSeq(r.bytes, m + 1, r.n))
      [] r.k = "ramp" -> [r EXCEPT !.n = r.n - m, !.b = (r.b + m) % 256]
      [] OTHER        -> [r EXCEPT !.n = r.n - m]

\* n zero bytes: bytearray(n), and the holes of a truncated file
Zeros(n) == IF n > 0 THEN <<Fill(n, 0)>> ELSE <<>>

RECURSIVE Size(_)
\* len(data)
Size(d) == IF d = <<>> THEN 0 ELSE Head(d).n + Size(Tail(d))

RECURSIVE Take(_, _)
\* data[:m]
Take(d, m) ==
    IF m <= 0 \/ d = <<>> THEN <<>>
    ELSE IF Head(d).n <= m THEN <<Head(d)>> \o Take(Tail(d), m - Head(d).n)
    ELSE <<RunTake(Head(d), m)>>

RECURSIVE Drop(_, _)
\* data[m:]
Drop(d, m) ==
    IF d = <<>> THEN <<>>
    ELSE IF m <= 0 THEN d
    ELSE IF Head(d).n <= m THEN Drop(Tail(d), m - Head(d).n)
    ELSE <<RunDrop(Head(d), m)>> \o Tail(d)

Min(a, b) == IF a <= b THEN a ELSE b
Max(a, b) == IF a >= b THEN a ELSE b

\* data[lo:hi], with Python's clamping of slice bounds
Slice(d, lo, hi) ==
    LET n == Size(d)
        l == Min(Max(lo, 0), n)
        h == Max(Min(Max(hi, 0), n), l)
    IN Take(Drop(d, l), h - l)

RECURSIVE ByteAt(_, _)
\* data[i], for 0 <= i < len(data)
ByteAt(d, i) ==
    IF i < Head(d).n THEN RunByte(Head(d), i)
    ELSE ByteAt(Tail(d), i - Head(d).n)

\* do the first m bytes of runs r and s agree (m >= 1)
RunsAgree(r, s, m) ==
    IF r.k = "lit" \/ s.k = "lit" \/ m = 1
    THEN \A i \in 0..(m - 1) : RunByte(r, i) = RunByte(s, i)
    ELSE r.k = s.k /\ r.b = s.b

RECURSIVE SameBytes(_, _)
\* a == b on bytes objects: the same length and the same byte at every index
SameBytes(a, b) ==
    IF a = <<>> \/ b = <<>> THEN Size(a) = 0 /\ Size(b) = 0
    ELSE IF Head(a).n = 0 THEN SameBytes(Tail(a), b)
    ELSE IF Head(b).n = 0 THEN SameBytes(a, Tail(b))
    ELSE LET m == Min(Head(a).n, Head(b).n)
         IN /\ RunsAgree(Head(a), Head(b), m)
            /\ SameBytes(Drop(a, m), Drop(b, m))

\* data[lo:hi] = part on a bytearray (the slice bounds are clamped, and the
\* bytearray grows when part is longer than the slice it replaces)
SliceAssign(d, lo, hi, piece) ==
    LET n == Size(d)
        l == Min(Max(lo, 0), n)
        h == Max(Min(Max(hi, 0), n), l)
    IN Take(d, l) \o piece \o Drop(d, h)

\* f.seek(at); f.write(part) on a file opened "r+b": a seek past the end
\* leaves a hole of zeros, and the file grows to hold the bytes written
SeekWrite(d, at, piece) ==
    Take(d, at) \o Zeros(at - Size(d)) \o piece \o Drop(d, at + Size(piece))

\* struct.pack('<I', v): the four bytes of v, least significant first
PackU32(v) ==
    <<v % 256, (v \div 256) % 256, (v \div 65536) % 256, (v \div 16777216) % 256>>

\* struct.unpack('<I', ...) of the four bytes of data at offset at
UnpackU32(d, at) ==
    ByteAt(d, at) + 256 * ByteAt(d, at + 1) + 65536 * ByteAt(d, at + 2)
        + 16777216 * ByteAt(d, at + 3)

\* the 16-bit little-endian word of data at offset at
UnpackU16(d, at) == ByteAt(d, at) + 256 * ByteAt(d, at + 1)

\* math.ceil(a / b) for a >= 0, b > 0
CeilDiv(a, b) == (a + b - 1) \div b

(***************************************************************************)
(* The file system: each path holds a file (its bytes) or nothing.         *)
(***************************************************************************)
NoFile     == [exists |-> FALSE, data |-> <<>>]
File(d)    == [exists |-> TRUE, data |-> d]

\* p.exists(), p.read_bytes(), p.stat().st_size
Exists(f, p)    == f[p].exists
ReadBytes(f, p) == f[p].data
StatSize(f, p)  == Size(f[p].data)

\* p.write_bytes(d), and what an external tool leaves at its output path
WriteBytes(f, p, d) == [f EXCEPT ![p] = File(d)]
\* p.unlink()
Unlink(f, p) == [f EXCEPT ![p] = NoFile]
\* shutil.copy2(src, dst)
Copy2(f, src, dst) == [f EXCEPT ![dst] = File(f[src].data)]

\* sectors_of with the size divided rounding down
sectors_of_floor(f, p) == StatSize(f, p) \div 512

\* sectors_of(p)
sectors_of(f, p) == CeilDiv(StatSize(f, p), 512)

(***************************************************************************)
(* _inject_partition_table (build.py 262-291).                             *)
(***************************************************************************)
total_sectors(data) == Size(data) \div 512

\* end_sect counted from 0
end_sect_zero_based(lba) == lba % 63

\* the sector count taken for the whole disk instead of the partition
part_sector_count_whole_disk(total) == total

end_lba(total) == total - 1
end_sect(lba)  == (lba % 63) + 1
end_head(lba)  == (lba \div 63) % 255
end_cyl(lba)   == lba \div (63 * 255)

\* part[6] = (end_sect & 0x3F) | ((end_cyl >> 2) & 0xC0): the two operands
\* of | have no bit in common, so | adds them
chs_sector_byte(sect, cyl) == (sect % 64) + (((cyl \div 4) \div 64) % 4) * 64

\* struct.pack_into('<I', part, 12, total_sectors - 1)
part_sector_count(total) == total - 1

\* the 16 bytes of part
partition_entry(total) ==
    LET lba == end_lba(total)
    IN <<\h80, \h00, \h02, \h00, \h0B,
         end_head(lba) % 256,
         chs_sector_byte(end_sect(lba), end_cyl(lba)),
         end_cyl(lba) % 256>>
       \o PackU32(1)
       \o PackU32(part_sector_count(total))

\* data[0x1FE] != 0x55 or data[0x1FF] != 0xAA
signature_missing(data) == ByteAt(data, \h1FE) # \h55 \/ ByteAt(data, \h1FF) # \hAA

\* the bytes written back to img_path
inject_partition_table(data) ==
    SliceAssign(data, \h1BE, \h1BE + 16, <<Lit(partition_entry(total_sectors(data)))>>)

(***************************************************************************)
(* create_raw (build.py 294-323).                                          *)
(***************************************************************************)
raw_total(kernel_sectors) == KERNEL_LBA_START + kernel_sectors + KERNEL_MARGIN
raw_mb(kernel_sectors)    == Max(CeilDiv(raw_total(kernel_sectors) * 512, MiB), DISK_MIN_MB)
raw_nbytes(kernel_sectors) == raw_mb(kernel_sectors) * MiB

\* nbytes // 512, the total_sectors _inject_partition_table finds in the
\* image create_raw sizes for kernel_sectors, computed in sectors:
\* ceil(total * 512 / 2^20) is ceil(total / 2048), and a MiB is 2048 sectors
raw_image_sectors(kernel_sectors) ==
    Max(CeilDiv(raw_total(kernel_sectors), 2048), DISK_MIN_MB) * 2048

\* the image opened "r+b" when it exists: truncate(nbytes) keeps the bytes
\* an earlier build left in it
open_rb_truncate(f, nbytes) ==
    LET old == IF Exists(f, DISK_IMG) THEN ReadBytes(f, DISK_IMG) ELSE <<>>
    IN WriteBytes(f, DISK_IMG, Take(old, nbytes) \o Zeros(nbytes - Size(old)))

\* open(DISK_IMG, "wb") and f.truncate(nbytes): nbytes zero bytes, whatever
\* the file held before
open_wb_truncate(f, nbytes) == WriteBytes(f, DISK_IMG, Zeros(nbytes))

\* write_at without the seek: the artifact lands at the start of the image
write_at_no_seek(f, src, lba) ==
    WriteBytes(f, DISK_IMG, SeekWrite(ReadBytes(f, DISK_IMG), 0, ReadBytes(f, src)))

\* write_at(src, lba), on the file system f
write_at(f, src, lba) ==
    WriteBytes(f, DISK_IMG, SeekWrite(ReadBytes(f, DISK_IMG), lba * 512, ReadBytes(f, src)))

\* the file system after create_raw(kernel_sectors)
create_raw(f, kernel_sectors) ==
    LET f0 == open_wb_truncate(f, raw_nbytes(kernel_sectors))
        f1 == write_at(f0, BOOTBIN, 0)
        f2 == write_at(f1, STAGE2BIN, 1)
        f3 == write_at(f2, KERNELBIN, KERNEL_LBA_START)
        f4 == WriteBytes(f3, DISK_IMG, inject_partition_table(ReadBytes(f3, DISK_IMG)))
    IN Copy2(f4, DISK_IMG, RAW_COPY)

(***************************************************************************)
(* create_ventoy_sim (build.py 326-381).                                   *)
(***************************************************************************)
\* the LBA of the packet and of the entry given in bytes instead of sectors
part_lba_start_in_bytes == VENTOY_SIM_OFFSET_SECTORS * 512

part_lba_start == VENTOY_SIM_OFFSET_SECTORS

\* part_entry
ventoy_part_entry(img_sects) ==
    <<\h80, \hFE, \hFF, \hFF, \h42, \hFE, \hFF, \hFF>>
    \o PackU32(part_lba_start) \o PackU32(img_sects)

RECURSIVE PadTo(_, _, _)
\* while len(s) < n: s += bytes([b])
PadTo(s, n, b) == IF Len(s) < n THEN PadTo(Append(s, b), n, b) ELSE s

\* chainload_asm: the short jump, the disk-address-packet, the padding
chainload_asm ==
    PadTo(<<\hEB, \h4E,
            \h10, \h00, \h01, \h00,
            \h00, \h7C, \h00, \h7C>>
          \o PackU32(part_lba_start)
          \o PackU32(0),
          \h4E, \h90)

main_code ==
    <<\hFA, \h31, \hC0, \h8E, \hD8, \h8E, \hC0, \h8E, \hD0,
      \hBC, \h00, \h7C, \hFB,
      \hBE, \h02, \h7C, \hB4, \h42, \hCD, \h13,
      \h72, \h06,
      \hBE, \hBE, \h7D,
      \hEA, \h00, \h7C, \h00, \h00,
      \hFA, \hF4>>

full_code == chainload_asm \o main_code

\* s[lo:hi] = part on a bytearray held as a sequence of bytes
SeqSliceAssign(s, lo, hi, piece) ==
    LET l == Min(lo, Len(s))
        h == Max(Min(hi, Len(s)), l)
    IN SubSeq(s, 1, l) \o piece \o SubSeq(s, h + 1, Len(s))

\* mbr, the 512 bytes written to sector 0 of the container
ventoy_mbr(img_sects) ==
    LET code == SubSeq(full_code, 1, Min(446, Len(full_code)))
        m0   == [i \in 1..512 |-> 0]
        m1   == SeqSliceAssign(m0, 0, Len(code), code)
        m2   == SeqSliceAssign(m1, \h1BE, \h1BE + 16, ventoy_part_entry(img_sects))
    IN [m2 EXCEPT ![\h1FE + 1] = \h55, ![\h1FF + 1] = \hAA]

\* the offset in the container at which img_data is copied
ventoy_off == VENTOY_SIM_OFFSET_SECTORS * 512

\* the bytes written to VSIM_IMG for the raw image img_data
ventoy_container(img_data) ==
    LET container == Zeros(VENTOY_SIM_DISK_MB * MiB)
        c1 == SliceAssign(container, ventoy_off, ventoy_off + Size(img_data), img_data)
    IN SliceAssign(c1, 0, 512, <<Lit(ventoy_mbr(Size(img_data) \div 512))>>)

\* the file system after create_ventoy_sim()
create_ventoy_sim(f) ==
    IF ~Exists(f, DISK_IMG) THEN f
    ELSE WriteBytes(f, VSIM_IMG, ventoy_container(ReadBytes(f, DISK_IMG)))

(***************************************************************************)
(* The optical image and the hypervisor containers (build.py 388-488).     *)
(* What an external tool writes is outside the repository: its output is   *)
(* a header of its own followed by the image it was given.                  *)
(***************************************************************************)
\* the volume xorriso / genisoimage / mkisofs writes for the tree holding img
external_iso(img_data) ==
    Zeros(16 * 2048) \o <<Lit(<<1, 67, 68, 48, 48, 49, 1>>)>> \o Zeros(2048 - 7)
        \o img_data

\* what qemu-img convert -O vdi / -O vmdk writes
external_vdi(img_data)  == <<Lit(<<60, 60, 60, 32>>)>> \o img_data
external_vmdk(img_data) == <<Lit(<<75, 68, 77, 86>>)>> \o img_data

\* the built-in builder wrapping the image in a volume of its own
iso_wrapped(f) == WriteBytes(f, ISO_IMG, external_iso(ReadBytes(f, DISK_IMG)))

\* the built-in builder placing the image after a 16-block system area
iso_after_system_area(f) ==
    WriteBytes(f, ISO_IMG, Zeros(16 * 2048) \o ReadBytes(f, DISK_IMG))

\* _iso_as_disk: shutil.copy2(DISK_IMG, ISO_IMG)
iso_as_disk(f) == Copy2(f, DISK_IMG, ISO_IMG)

\* what xorriso / genisoimage / mkisofs leaves behind: the volume at ISO_IMG
\* when it exits with 0, nothing when it fails
run_iso_tool(f, ok) ==
    IF ok THEN WriteBytes(f, ISO_IMG, external_iso(ReadBytes(f, DISK_IMG))) ELSE f

\* an external tool counted as successful as soon as it is found
iso_tool_succeeded_if_found(t, ok, f) == t # "None"

\* _iso_xorriso() / _iso_genisoimage() return True: the tool t was found, it
\* exited with 0 and ISO_IMG exists in the file system f it left
iso_tool_succeeded(t, ok, f) == t # "None" /\ ok /\ Exists(f, ISO_IMG)

\* find_tool(*names) over the tools on the PATH: the first name found
find_tool(tools, names) ==
    IF \E i \in 1..Len(names) : names[i] \in tools
    THEN names[CHOOSE i \in 1..Len(names) :
                 /\ names[i] \in tools
                 /\ \A j \in 1..(i - 1) : names[j] \notin tools]
    ELSE "None"

(***************************************************************************)
(* The environment of one run of main(): the command line, the tools on    *)
(* the PATH, what an earlier build left in build/, and what the toolchain  *)
(* produces.                                                               *)
(***************************************************************************)
RequiredTools == {"nasm", "cargo", "qemu-system-x86_64", "objcopy"}
OptionalTools == {"qemu-img", "xorriso", "genisoimage", "mkisofs"}

ToolSets ==
    {RequiredTools \cup o : o \in SUBSET OptionalTools}
        \cup {RequiredTools \ {t} : t \in RequiredTools}

\* the command lines of a build that ends without starting the emulator
ArgvSets ==
    {a \cup {"--no-run"} : a \in SUBSET {"--no-iso", "--no-vm"}} \cup {{"--clean"}}

Deltas == {d \in (0 - MaxDelta)..MaxDelta : d # 0}

\* boot.bin as nasm may write it: the 512 bytes of the end-to-end scenario,
\* 512 bytes of code ending in the signature, 512 bytes without the
\* signature, and files that are not 512 bytes
BootArtifacts ==
    { <<Lit(<<\hEB, \h00>>), Fill(508, 0), Lit(<<\h55, \hAA>>)>>,
      <<Ramp(510, 1), Lit(<<\h55, \hAA>>)>>,
      <<Ramp(512, 1)>> }
    \cup { <<Ramp(512 + d, 1)>> : d \in Deltas }

\* stage2.bin as nasm may write it
Stage2Artifacts ==
    { <<Fill(STAGE2_SECTORS * 512 + d, \h90)>> : d \in Deltas \cup {0} }

KernelSectorBases == {0, 1, 16255, 128895}

KernelSizes ==
    {n \in {b * 512 + d : b \in KernelSectorBases, d \in Deltas \cup {0}} : n >= 0}
        \cup {1500}

\* kernel.bin as objcopy may write it
KernelArtifacts ==
    { IF n = 0 THEN <<>> ELSE IF n = 1500 THEN <<Fill(n, \hCC)>> ELSE <<Ramp(n, 1)>>
        : n \in KernelSizes }

\* what an earlier build left behind
StaleData(p) ==
    IF p \in {DISK_IMG, RAW_COPY, ISO_IMG} THEN <<Fill(9 * MiB, \h11)>>
    ELSE <<Fill(1024, \h11)>>

InitialFS(prev) ==
    [p \in Paths |-> IF prev = "stale" THEN File(StaleData(p)) ELSE NoFile]

\* the threads of run_qemu() and the emulator process each one runs:
\* st is "idle" before subprocess.run, "running" while the emulator holds
\* its files open, "exited" after it
Threads == {"main", "t1", "t2"}
NoProcess == [st |-> "idle", drive |-> "None", serial |-> "None", debug |-> "None"]
NoQemu == [t \in Threads |-> NoProcess]

(***************************************************************************)
(* main() (build.py 583-619), one action per step.                         *)
(***************************************************************************)
Init ==
    /\ env \in [argv : ArgvSets, tools : ToolSets, prev : {"none", "stale"}]
    /\ fs = InitialFS(env.prev)
    /\ pc = "main"
    /\ ks = 0
    /\ rc = 0
    /\ log = {}
    /\ stage2_defs = [set |-> FALSE, KERNEL_SECTORS |-> 0, KERNEL_LBA |-> 0]
    /\ iso_by = "none"
    /\ iso_runs = <<>>
    /\ part = <<>>
    /\ qemu = NoQemu

arg(name) == name \in env.argv

\* sys.exit(code)
Exit(code, msg) ==
    /\ pc' = "exit"
    /\ rc' = code
    /\ log' = log \cup msg

\* create_iso() run whatever the command line says
AfterRaw_always_iso == "create_iso"

\* the step main() runs after create_raw, after create_iso and after the
\* container steps
AfterRaw == IF ~arg("--no-iso") THEN "create_iso"
            ELSE IF ~arg("--no-vm") THEN "create_vdi" ELSE "create_ventoy_sim"
AfterIso == IF ~arg("--no-vm") THEN "create_vdi" ELSE "create_ventoy_sim"

\* clean(): shutil.rmtree(BUILD), which holds every path of the model
Clean ==
    /\ pc = "main"
    /\ arg("--clean")
    /\ fs' = [p \in Paths |-> NoFile]
    /\ pc' = "done"
    /\ UNCHANGED <<ks, rc, log, env, stage2_defs, iso_by, iso_runs, part, qemu>>

\* reset_logs()
ResetLogs ==
    /\ pc = "main"
    /\ ~arg("--clean")
    /\ log' = {}
    /\ pc' = "check_tools"
    /\ UNCHANGED <<fs, ks, rc, env, stage2_defs, iso_by, iso_runs, part, qemu>>

\* check_tools()
CheckTools ==
    /\ pc = "check_tools"
    /\ IF \E t \in {"nasm", "cargo", "qemu-system-x86_64"} : find_tool(env.tools, <<t>>) = "None"
       THEN Exit(1, {"FALTA"})
       ELSE IF find_tool(env.tools, <<"objcopy">>) = "None"
       THEN Exit(1, {"FALTA objcopy"})
       ELSE pc' = "assemble_boot" /\ UNCHANGED <<rc, log>>
    /\ UNCHANGED <<fs, ks, env, stage2_defs, iso_by, iso_runs, part, qemu>>

\* the loader's size check letting a short stage2.bin through
stage2_size_at_most(f) == StatSize(f, STAGE2BIN) <= STAGE2_SECTORS * 512

\* size != 512 is fatal in assemble_boot
boot_size_ok(f) == StatSize(f, BOOTBIN) = 512

\* s2 != expected is fatal in assemble_stage2
stage2_size_ok(f) == StatSize(f, STAGE2BIN) = STAGE2_SECTORS * 512

\* assemble_boot()
AssembleBoot ==
    /\ pc = "assemble_boot"
    /\ \/ \* nasm fails on boot.asm
          /\ Exit(1, {"ERROR nasm"})
          /\ UNCHANGED fs
       \/ \E boot \in BootArtifacts :
            LET f1 == WriteBytes(fs, BOOTBIN, boot)
            IN IF ~boot_size_ok(f1)
               THEN /\ Exit(1, {"ERROR boot.bin"})
                    /\ fs' = f1
               ELSE \/ \* nasm fails on isr.asm
                       /\ Exit(1, {"ERROR nasm"})
                       /\ fs' = f1
                    \/ /\ fs' = WriteBytes(f1, ISROBJ, <<Fill(64, \h7F)>>)
                       /\ pc' = "build_kernel"
                       /\ UNCHANGED <<rc, log>>
    /\ UNCHANGED <<ks, env, stage2_defs, iso_by, iso_runs, part, qemu>>

\* build_kernel()
BuildKernel ==
    /\ pc = "build_kernel"
    /\ \/ \* cargo or objcopy fails, or no ELF is found
          /\ Exit(1, {"ERROR kernel"})
          /\ UNCHANGED <<fs, ks>>
       \/ \E kernel \in KernelArtifacts :
            /\ fs' = WriteBytes(fs, KERNELBIN, kernel)
            /\ ks' = sectors_of(fs', KERNELBIN)
            /\ pc' = "assemble_stage2"
            /\ UNCHANGED <<rc, log>>
    /\ UNCHANGED <<env, stage2_defs, iso_by, iso_runs, part, qemu>>

\* the loader told that the kernel starts right after the boot sector's
\* 64 followers, without counting the boot sector
stage2_defines_lba_from_one(kernel_sectors) ==
    [set |-> TRUE, KERNEL_SECTORS |-> kernel_sectors, KERNEL_LBA |-> STAGE2_SECTORS]

\* the -D definitions nasm is given for stage2.asm
stage2_defines(kernel_sectors) ==
    [set |-> TRUE, KERNEL_SECTORS |-> kernel_sectors, KERNEL_LBA |-> KERNEL_LBA_START]

\* assemble_stage2(ks)
AssembleStage2 ==
    /\ pc = "assemble_stage2"
    /\ stage2_defs' = stage2_defines(ks)
    /\ \/ \* nasm fails on stage2.asm
          /\ Exit(1, {"ERROR nasm"})
          /\ UNCHANGED fs
       \/ \E stage2 \in Stage2Artifacts :
            /\ fs' = WriteBytes(fs, STAGE2BIN, stage2)
            /\ IF ~stage2_size_ok(fs')
               THEN Exit(1, {"ERROR stage2.bin"})
               ELSE pc' = "create_raw" /\ UNCHANGED <<rc, log>>
    /\ UNCHANGED <<ks, env, iso_by, iso_runs, part, qemu>>

\* the bytes of DISK_IMG that _inject_partition_table reads in create_raw
raw_before_inject(f, kernel_sectors) ==
    LET f0 == open_wb_truncate(f, raw_nbytes(kernel_sectors))
    IN ReadBytes(write_at(write_at(write_at(f0, BOOTBIN, 0), STAGE2BIN, 1),
                          KERNELBIN, KERNEL_LBA_START), DISK_IMG)

\* create_raw(ks)
CreateRaw ==
    /\ pc = "create_raw"
    /\ fs' = create_raw(fs, ks)
    /\ log' = IF signature_missing(raw_before_inject(fs, ks))
              THEN log \cup {"WARN firma"} ELSE log
    /\ part' = partition_entry(total_sectors(raw_before_inject(fs, ks)))
    /\ pc' = AfterRaw
    /\ UNCHANGED <<ks, rc, env, stage2_defs, iso_by, iso_runs, qemu>>

\* create_iso(): _iso_xorriso, then _iso_genisoimage, then _iso_as_disk.
\* An external tool that is found is run; xok and gok are what run_safe
\* returns for it.
CreateIso ==
    /\ pc = "create_iso"
    /\ \E xok \in BOOLEAN, gok \in BOOLEAN :
         LET x  == find_tool(env.tools, <<"xorriso">>)
             g  == find_tool(env.tools, <<"genisoimage", "mkisofs">>)
             fx == IF x # "None" THEN run_iso_tool(fs, xok) ELSE fs
             xs == iso_tool_succeeded(x, xok, fx)
             fg == IF ~xs /\ g # "None" THEN run_iso_tool(fx, gok) ELSE fx
             gs == ~xs /\ iso_tool_succeeded(g, gok, fg)
         IN /\ fs' = IF xs \/ gs THEN fg ELSE iso_as_disk(fg)
            /\ iso_by' = IF xs THEN x ELSE IF gs THEN g ELSE "builtin"
            /\ iso_runs' = (IF x # "None" THEN <<[tool |-> x, ok |-> xok]>> ELSE <<>>)
                             \o (IF ~xs /\ g # "None"
                                 THEN <<[tool |-> g, ok |-> gok]>> ELSE <<>>)
    /\ pc' = AfterIso
    /\ UNCHANGED <<ks, rc, log, env, stage2_defs, part, qemu>>

\* create_vdi()
CreateVdi ==
    /\ pc = "create_vdi"
    /\ IF find_tool(env.tools, <<"qemu-img">>) = "None"
       THEN /\ log' = log \cup {"WARN VDI"}
            /\ UNCHANGED fs
       ELSE \/ /\ fs' = WriteBytes(Unlink(fs, VDI_IMG), VDI_IMG,
                                   external_vdi(ReadBytes(fs, DISK_IMG)))
               /\ UNCHANGED log
            \/ \* qemu-img fails
               /\ fs' = Unlink(fs, VDI_IMG)
               /\ log' = log \cup {"WARN VDI"}
    /\ pc' = "create_vmdk"
    /\ UNCHANGED <<ks, rc, env, stage2_defs, iso_by, iso_runs, part, qemu>>

\* create_vmdk()
CreateVmdk ==
    /\ pc = "create_vmdk"
    /\ IF find_tool(env.tools, <<"qemu-img">>) = "None"
       THEN /\ log' = log \cup {"WARN VMDK"}
            /\ UNCHANGED fs
       ELSE \/ /\ fs' = WriteBytes(Unlink(fs, VMDK_IMG), VMDK_IMG,
                                   external_vmdk(ReadBytes(fs, DISK_IMG)))
               /\ UNCHANGED log
            \/ \* qemu-img fails
               /\ fs' = Unlink(fs, VMDK_IMG)
               /\ log' = log \cup {"WARN VMDK"}
    /\ pc' = "create_ventoy_sim"
    /\ UNCHANGED <<ks, rc, env, stage2_defs, iso_by, iso_runs, part, qemu>>

\* create_ventoy_sim()
CreateVentoySim ==
    /\ pc = "create_ventoy_sim"
    /\ fs' = create_ventoy_sim(fs)
    /\ pc' = "summary"
    /\ UNCHANGED <<ks, rc, log, env, stage2_defs, iso_by, iso_runs, part, qemu>>

\* summary(), after which main() returns or calls run_qemu()
Summary ==
    /\ pc = "summary"
    /\ pc' = IF arg("--no-run") THEN "done" ELSE "run_qemu"
    /\ UNCHANGED <<fs, ks, rc, log, env, stage2_defs, iso_by, iso_runs, part, qemu>>

Next ==
    \/ Clean
    \/ ResetLogs
    \/ CheckTools
    \/ AssembleBoot
    \/ BuildKernel
    \/ AssembleStage2
    \/ CreateRaw
    \/ CreateIso
    \/ CreateVdi
    \/ CreateVmdk
    \/ CreateVentoySim
    \/ Summary

Spec == Init /\ [][Next]_vars

(***************************************************************************)
(* run_qemu (build.py 494-538): the build followed by the emulator, for    *)
(* the command lines without --no-run.                                     *)
(***************************************************************************)
SERIAL_LOG == "build/logs/serial.log"
DEBUG_LOG  == "build/logs/debug.log"

\* the --mode=... arguments, and the text arg_val("--mode") returns for each
ModeArgs == {"--mode=raw", "--mode=iso", "--mode=ventoy-sim", "--mode=both", "--mode=usb"}
ModeValue == [a \in ModeArgs |->
                CASE a = "--mode=raw" -> "raw"
                  [] a = "--mode=iso" -> "iso"
                  [] a = "--mode=ventoy-sim" -> "ventoy-sim"
                  [] a = "--mode=both" -> "both"
                  [] OTHER -> "usb"]

\* arg_val("--mode")
arg_val_mode ==
    IF env.argv \cap ModeArgs = {} THEN "None"
    ELSE ModeValue[CHOOSE a \in env.argv \cap ModeArgs : TRUE]

\* mode = arg_val("--mode") or "raw"
mode == IF arg_val_mode = "None" THEN "raw" ELSE arg_val_mode

\* the function each thread runs: raw, iso or ventoy_sim
target_of(t) ==
    IF t = "t1" THEN "raw"
    ELSE IF t = "t2" THEN "iso"
    ELSE IF mode \in {"iso", "ventoy-sim"} THEN mode ELSE "raw"

\* the image iso() hands to the emulator
iso_target(f) == IF Exists(f, ISO_IMG) THEN ISO_IMG ELSE DISK_IMG

\* the emulator process a thread starts: its -drive file, its -serial file
\* and its -D file, all three taken from the shared list base
emulator(drive) ==
    [st |-> "running", drive |-> drive, serial |-> SERIAL_LOG, debug |-> DEBUG_LOG]

\* the command lines of a build that goes on to run_qemu(), and --clean
RunArgvSets ==
    {m \cup s : m \in {{}} \cup {{a} : a \in ModeArgs},
                s \in SUBSET {"--no-iso", "--no-vm"}}
        \cup {{"--clean"}}

RunToolSets == {RequiredTools, RequiredTools \cup OptionalTools}

RunInit ==
    /\ env \in [argv : RunArgvSets, tools : RunToolSets, prev : {"none", "stale"}]
    /\ fs = InitialFS(env.prev)
    /\ pc = "main"
    /\ ks = 0
    /\ rc = 0
    /\ log = {}
    /\ stage2_defs = [set |-> FALSE, KERNEL_SECTORS |-> 0, KERNEL_LBA |-> 0]
    /\ iso_by = "none"
    /\ iso_runs = <<>>
    /\ part = <<>>
    /\ qemu = NoQemu

\* run_qemu() up to the call of the mode's function or the start of the
\* two threads
RunQemu ==
    /\ pc = "run_qemu"
    /\ IF mode = "both"
       THEN /\ qemu' = [qemu EXCEPT !["t1"].st = "started", !["t2"].st = "started"]
            /\ pc' = "join"
       ELSE /\ qemu' = [qemu EXCEPT !["main"].st = "started"]
            /\ pc' = "wait"
    /\ UNCHANGED <<fs, ks, rc, log, env, stage2_defs, iso_by, iso_runs, part>>

\* raw(), iso() or ventoy_sim() in thread t, up to subprocess.run starting
\* the emulator
Launch(t) ==
    /\ qemu[t].st = "started"
    /\ LET f == IF target_of(t) = "ventoy-sim" /\ ~Exists(fs, VSIM_IMG)
                THEN create_ventoy_sim(fs) ELSE fs
       IN /\ fs' = f
          /\ qemu' = [qemu EXCEPT ![t] =
                IF target_of(t) = "raw" THEN emulator(DISK_IMG)
                ELSE IF target_of(t) = "iso" THEN emulator(iso_target(fs))
                ELSE IF Exists(f, VSIM_IMG) THEN emulator(VSIM_IMG)
                ELSE [NoProcess EXCEPT !.st = "exited"]]
    /\ UNCHANGED <<pc, ks, rc, log, env, stage2_defs, iso_by, iso_runs, part>>

\* the emulator of thread t exits and subprocess.run returns
QemuExit(t) ==
    /\ qemu[t].st = "running"
    /\ qemu' = [qemu EXCEPT ![t].st = "exited"]
    /\ UNCHANGED <<fs, pc, ks, rc, log, env, stage2_defs, iso_by, iso_runs, part>>

\* t1.join(); t2.join()
Join ==
    /\ pc = "join"
    /\ qemu["t1"].st = "exited" /\ qemu["t2"].st = "exited"
    /\ pc' = "done"
    /\ UNCHANGED <<fs, ks, rc, log, env, stage2_defs, iso_by, iso_runs, part, qemu>>

\* the mode's function returns to run_qemu(), which returns to main()
Return ==
    /\ pc = "wait"
    /\ qemu["main"].st = "exited"
    /\ pc' = "done"
    /\ UNCHANGED <<fs, ks, rc, log, env, stage2_defs, iso_by, iso_runs, part, qemu>>

RunNext ==
    \/ Clean
    \/ ResetLogs
    \/ CheckTools
    \/ AssembleBoot
    \/ BuildKernel
    \/ AssembleStage2
    \/ CreateRaw
    \/ CreateIso
    \/ CreateVdi
    \/ CreateVmdk
    \/ CreateVentoySim
    \/ Summary
    \/ RunQemu
    \/ \E t \in Threads : Launch(t)
    \/ \E t \in Threads : QemuExit(t)
    \/ Join
    \/ Return

RunSpec == RunInit /\ [][RunNext]_vars

(***************************************************************************)
(* _inject_partition_table on its own: applied to a disk image of any      *)
(* whole number of sectors, with or without the boot signature.            *)
(***************************************************************************)
InjectSectorCounts == (1..MaxInjectSectors) \cup {64, 16065, 2 * 16065, 8 * 2048}

InjectImages ==
    { sector0 \o Zeros((n - 1) * 512) :
        n \in InjectSectorCounts,
        sector0 \in { <<Ramp(510, 1), Lit(<<\h55, \hAA>>)>>, Zeros(512) } }

InjectInit ==
    /\ env = [argv |-> {}, tools |-> RequiredTools, prev |-> "none"]
    /\ \E img \in InjectImages : fs = [InitialFS("none") EXCEPT ![DISK_IMG] = File(img)]
    /\ pc = "inject"
    /\ ks = 0
    /\ rc = 0
    /\ log = {}
    /\ stage2_defs = [set |-> FALSE, KERNEL_SECTORS |-> 0, KERNEL_LBA |-> 0]
    /\ iso_by = "none"
    /\ iso_runs = <<>>
    /\ part = <<>>
    /\ qemu = NoQemu

\* _inject_partition_table(DISK_IMG)
InjectPartitionTable ==
    /\ pc = "inject"
    /\ fs' = WriteBytes(fs, DISK_IMG, inject_partition_table(ReadBytes(fs, DISK_IMG)))
    /\ log' = IF signature_missing(ReadBytes(fs, DISK_IMG))
              THEN log \cup {"WARN firma"} ELSE log
    /\ part' = partition_entry(total_sectors(ReadBytes(fs, DISK_IMG)))
    /\ pc' = "injected"
    /\ UNCHANGED <<ks, rc, env, stage2_defs, iso_by, iso_runs, qemu>>

InjectNext == InjectPartitionTable

InjectSpec == InjectInit /\ [][InjectNext]_vars

(***************************************************************************)
(* The partition entry of the image create_raw sizes for a kernel of ks    *)
(* sectors, for kernels of any size main() lets through: build_kernel      *)
(* returns sectors_of(KERNELBIN) and nothing compares it with a limit.     *)
(* Sizes are kept in sectors, the byte counts of these images being        *)
(* beyond the integers of the model checker.                               *)
(***************************************************************************)
ChsKernelBases == {0, 16255, 128895, 16449407}

ChsKernelSectors == {b + d : b \in ChsKernelBases, d \in 0..MaxChsDelta}

ChsInit ==
    /\ env = [argv |-> {"--no-run"}, tools |-> RequiredTools, prev |-> "none"]
    /\ fs = InitialFS("none")
    /\ pc = "chs"
    /\ ks \in ChsKernelSectors
    /\ rc = 0
    /\ log = {}
    /\ stage2_defs = stage2_defines(ks)
    /\ iso_by = "none"
    /\ iso_runs = <<>>
    /\ part = <<>>
    /\ qemu = NoQemu

\* part as _inject_partition_table fills it for the image of create_raw(ks)
InjectPlanned ==
    /\ pc = "chs"
    /\ part' = partition_entry(raw_image_sectors(ks))
    /\ pc' = "chs_done"
    /\ UNCHANGED <<fs, ks, rc, log, env, stage2_defs, iso_by, iso_runs, qemu>>

ChsNext == InjectPlanned

ChsSpec == ChsInit /\ [][ChsNext]_vars

(***************************************************************************)
(* Properties.                                                             *)
(***************************************************************************)
\* the steps of main() that follow create_raw
PostRaw == {"create_iso", "create_vdi", "create_vmdk", "create_ventoy_sim", "summary", "done"}

\* create_raw has run in this build
RawBuilt == pc \in PostRaw /\ ~arg("--clean")

\* create_ventoy_sim has run in this build
VsimBuilt == pc \in {"summary", "done"} /\ ~arg("--clean")

img_data    == ReadBytes(fs, DISK_IMG)
kernel_size == StatSize(fs, KERNELBIN)
kernel_off  == KERNEL_LBA_START * 512

\* C1: for a kernel.bin of n >= 1 bytes the build plans ceil(n/512) kernel
\* sectors; boot lies at sector 0, the loader at sectors 1..64, the kernel at
\* sector 65 for ceil(n/512) sectors and the margin after it, in this order
\* and without overlap (everything after the kernel's bytes is still zero);
\* the raw image is max(8, ceil((1+64+ks+64)*512 / 2^20)) MiB, a whole
\* number of MiB covering the end of the margin; n = 1500 gives 3 kernel
\* sectors, 132 sectors in all and an 8 MiB image.
C1_LayoutPlan ==
    (RawBuilt /\ kernel_size >= 1) =>
        LET n      == kernel_size
            size   == Size(img_data)
            margin == (KERNEL_LBA_START + ks) * 512
            end    == (1 + 64 + ks + 64) * 512
            mb     == size \div MiB
        IN /\ ks * 512 >= n /\ (ks - 1) * 512 < n
           /\ KERNEL_LBA_START = 1 + 64
           /\ SameBytes(Slice(img_data, 0, \h1BE), Slice(ReadBytes(fs, BOOTBIN), 0, \h1BE))
           /\ SameBytes(Slice(img_data, 512, kernel_off), ReadBytes(fs, STAGE2BIN))
           /\ SameBytes(Slice(img_data, kernel_off, kernel_off + n), ReadBytes(fs, KERNELBIN))
           /\ kernel_off + n <= margin
           /\ SameBytes(Slice(img_data, kernel_off + n, size), Zeros(size - kernel_off - n))
           /\ size % MiB = 0
           /\ mb >= 8
           /\ size >= end
           /\ (mb = 8 \/ (mb - 1) * MiB < end)
           /\ (n = 1500 => ks = 3 /\ end = 132 * 512 /\ size = 8 * MiB)

C1_Witness ==
    /\ RawBuilt
    /\ kernel_size = 1500
    /\ ks = 3
    /\ Size(img_data) = 8 * MiB

\* C2 as stated: after create_raw the 512 bytes at sector 0 equal boot.bin,
\* the 64*512 bytes at sector 1 equal stage2.bin and the kernel's bytes at
\* sector 65 equal kernel.bin.
C2_RoundTripAsStated ==
    RawBuilt =>
        /\ SameBytes(Slice(img_data, 0, 512), ReadBytes(fs, BOOTBIN))
        /\ SameBytes(Slice(img_data, 512, kernel_off), ReadBytes(fs, STAGE2BIN))
        /\ SameBytes(Slice(img_data, kernel_off, kernel_off + kernel_size),
                     ReadBytes(fs, KERNELBIN))

\* C2 (amended): after create_raw the bytes read back at sector 1 equal
\* stage2.bin and those at sector 65 equal kernel.bin; sector 0 equals
\* boot.bin except for bytes 0x1BE..0x1CD, which hold the injected partition
\* entry.
C2_RoundTrip ==
    RawBuilt =>
        LET boot == ReadBytes(fs, BOOTBIN)
        IN /\ SameBytes(Slice(img_data, 0, \h1BE), Slice(boot, 0, \h1BE))
           /\ SameBytes(Slice(img_data, \h1BE, \h1CE),
                        <<Lit(partition_entry(Size(img_data) \div 512))>>)
           /\ SameBytes(Slice(img_data, \h1CE, 512), Slice(boot, \h1CE, 512))
           /\ SameBytes(Slice(img_data, 512, kernel_off), ReadBytes(fs, STAGE2BIN))
           /\ SameBytes(Slice(img_data, kernel_off, kernel_off + kernel_size),
                        ReadBytes(fs, KERNELBIN))

C2_Witness ==
    /\ RawBuilt
    /\ kernel_size = 16255 * 512 + 1
    /\ ByteAt(ReadBytes(fs, BOOTBIN), \h1BE) # ByteAt(img_data, \h1BE)
    /\ ByteAt(img_data, kernel_off + kernel_size - 1) = ByteAt(ReadBytes(fs, KERNELBIN), kernel_size - 1)

\* The kernel sector ceiling of the design (spec 3, 4.1). build.py sets
\* none; the largest kernel whose raw image still fits the nested container
\* behind its offset is taken for it.
KERNEL_SECTOR_CEILING ==
    (VENTOY_SIM_DISK_MB * 2048 - VENTOY_SIM_OFFSET_SECTORS)
        - (KERNEL_LBA_START + KERNEL_MARGIN)

\* the output files of the image construction steps
Outputs == {DISK_IMG, RAW_COPY, ISO_IMG, VDI_IMG, VMDK_IMG, VSIM_IMG}

\* C3: when the measured kernel sector count exceeds the kernel sector
\* ceiling the build aborts before the layout is planned: the loader is not
\* assembled for that kernel and no raw image is written.
C3_CeilingAborts ==
    ks > KERNEL_SECTOR_CEILING =>
        /\ ~stage2_defs.set
        /\ pc \notin ({"create_raw"} \cup PostRaw)
        /\ fs[DISK_IMG] = InitialFS(env.prev)[DISK_IMG]

\* the 16-byte entry at 0x1BE of an injected image
entry_off == \h1BE

\* C4: for an image of N sectors, with or without the boot signature, the
\* entry injected at 0x1BE has boot flag 0x80, start LBA 1 and sector count
\* N-1 (16383 for an 8 MiB image), and nothing else of the image changes;
\* a missing signature is only logged as a warning.
C4_PartitionEntry ==
    pc = "injected" =>
        LET N == Size(img_data) \div 512
        IN /\ ByteAt(img_data, entry_off) = \h80
           /\ UnpackU32(img_data, entry_off + 8) = 1
           /\ UnpackU32(img_data, entry_off + 12) = N - 1
           /\ (N = 8 * 2048 => UnpackU32(img_data, entry_off + 12) = 16383)
           /\ Size(img_data) = N * 512
           /\ \E img \in InjectImages :
                /\ Size(img) = Size(img_data)
                /\ SameBytes(Slice(img, 0, entry_off), Slice(img_data, 0, entry_off))
                /\ SameBytes(Slice(img, entry_off + 16, Size(img)),
                             Slice(img_data, entry_off + 16, Size(img)))
                /\ ("WARN firma" \in log) = signature_missing(img)
           /\ rc = 0

C4_Witness ==
    /\ pc = "injected"
    /\ Size(img_data) = 8 * MiB
    /\ "WARN firma" \in log
    /\ UnpackU32(img_data, entry_off + 12) = 16383

\* the end LBA that the ending CHS bytes of an entry stand for under the
\* 63 sectors / 255 heads convention
chs_decode(d) ==
    LET head   == ByteAt(d, entry_off + 5)
        sector == ByteAt(d, entry_off + 6) % 64
        cyl    == (ByteAt(d, entry_off + 6) \div 64) * 256 + ByteAt(d, entry_off + 7)
    IN (cyl * 255 + head) * 63 + (sector - 1)

\* C5: the ending CHS bytes written by the injection decode, under
\* lba = (cylinder*255 + head)*63 + (sector-1), to the end LBA N-1, for
\* N in {2, 64, 16065, 32130} and for every other image of the model.
C5_ChsRoundTrip ==
    pc = "injected" => chs_decode(img_data) = Size(img_data) \div 512 - 1

C5_Witness ==
    /\ pc = "injected"
    /\ Size(img_data) \div 512 = 2 * 16065
    /\ chs_decode(img_data) = 32129
    /\ ByteAt(img_data, entry_off + 7) = 1
    /\ ByteAt(img_data, entry_off + 5) = 254

\* C6: a boot.bin that is not 512 bytes, or a stage2.bin that is not 64*512
\* bytes, ends the build with a non-zero exit before create_raw: no step
\* after assemble_boot (after assemble_stage2) runs with a wrong boot.bin
\* (stage2.bin), and a build that exits has left every output file as the
\* earlier build left it.
C6_SizeMismatchFatal ==
    /\ (pc \in ({"build_kernel", "assemble_stage2", "create_raw"} \cup PostRaw) /\ ~arg("--clean"))
          => StatSize(fs, BOOTBIN) = 512
    /\ (pc = "create_raw" \/ RawBuilt) => StatSize(fs, STAGE2BIN) = 64 * 512
    /\ pc = "exit" =>
          /\ rc # 0
          /\ \A p \in Outputs : fs[p] = InitialFS(env.prev)[p]
    /\ ("ERROR boot.bin" \in log \/ "ERROR stage2.bin" \in log) => pc = "exit"

C6_Witness ==
    /\ pc = "exit"
    /\ rc = 1
    /\ "ERROR stage2.bin" \in log
    /\ StatSize(fs, STAGE2BIN) = 64 * 512 - 1
    /\ env.prev = "stale"
    /\ Exists(fs, VSIM_IMG)

vsim_data == ReadBytes(fs, VSIM_IMG)

\* the disk-address-packet follows the two bytes of the short jump
dap_off == 2

\* C7: in the nested container the 64-bit LBA of the disk-address-packet is
\* offset_sectors (2048), the value that also fills the partition entry's
\* start LBA and positions the copy: the container's bytes from
\* offset_sectors*512 on equal the raw image over its whole length.
C7_NestedLbaAndCopy ==
    VsimBuilt =>
        /\ UnpackU32(vsim_data, dap_off + 8) = 2048
        /\ UnpackU32(vsim_data, dap_off + 12) = 0
        /\ UnpackU32(vsim_data, dap_off + 8) = VENTOY_SIM_OFFSET_SECTORS
        /\ UnpackU32(vsim_data, entry_off + 8) = UnpackU32(vsim_data, dap_off + 8)
        /\ Size(vsim_data) >= 2048 * 512 + Size(img_data)
        /\ SameBytes(Slice(vsim_data, 2048 * 512, 2048 * 512 + Size(img_data)), img_data)

C7_Witness ==
    /\ VsimBuilt
    /\ kernel_size = 1500
    /\ UnpackU32(vsim_data, dap_off + 8) = 2048
    /\ ByteAt(vsim_data, 2048 * 512 + kernel_off) = \hCC

\* the bytes s occur in d at offset at
BytesAt(d, at, s) == \A i \in 1..Len(s) : ByteAt(d, at + i - 1) = s[i]

\* C8: the container's master boot record holds a disk-address-packet (size
\* 0x10, reserved 0, count 1, offset 0x7C00, segment 0x0000, 64-bit LBA)
\* and code that calls INT 13h with AH=0x42 and then jumps far to
\* 0x0000:0x7C00.
C8_ExtendedReadPacket ==
    VsimBuilt =>
        /\ ByteAt(vsim_data, dap_off) = \h10
        /\ ByteAt(vsim_data, dap_off + 1) = 0
        /\ UnpackU16(vsim_data, dap_off + 2) = 1
        /\ UnpackU16(vsim_data, dap_off + 4) = \h7C00
        /\ UnpackU16(vsim_data, dap_off + 6) = \h0000
        /\ \E i \in 0..(\h1BE - 4) :
              /\ BytesAt(vsim_data, i, <<\hB4, \h42, \hCD, \h13>>)
              /\ \E j \in (i + 4)..(\h1BE - 5) :
                    BytesAt(vsim_data, j, <<\hEA, \h00, \h7C, \h00, \h00>>)

\* C9: the nested container is exactly 64 MiB, the whole raw image lies
\* inside it from sector 2048 on, and sector 0 ends in 0x55 0xAA.
C9_ContainerFixedSize ==
    VsimBuilt =>
        /\ Size(vsim_data) = 64 * MiB
        /\ 2048 * 512 + Size(img_data) <= Size(vsim_data)
        /\ ByteAt(vsim_data, \h1FE) = \h55
        /\ ByteAt(vsim_data, \h1FF) = \hAA

iso_data == ReadBytes(fs, ISO_IMG)

\* the built-in builder has written the optical image in this build
BuiltinIso == iso_by = "builtin" /\ ~arg("--clean")

\* the sum modulo 65536 of the 16 little-endian words of d from offset at
word_sum(d, at) ==
    LET w(i) == UnpackU16(d, at + 2 * i)
    IN (w(0) + w(1) + w(2) + w(3) + w(4) + w(5) + w(6) + w(7)
        + w(8) + w(9) + w(10) + w(11) + w(12) + w(13) + w(14) + w(15)) % 65536

\* d holds a boot-record descriptor (type byte 0, magic CD001) in block 17,
\* its pointer names a block inside d, and that block opens with a
\* validation entry (header id 1) whose 16 words sum to 0 modulo 65536
has_checksummed_catalog(d) ==
    /\ Size(d) >= 18 * 2048
    /\ BytesAt(d, 17 * 2048, <<0, 67, 68, 48, 48, 49>>)
    /\ BytesAt(d, 17 * 2048 + \h47 + 2, <<0, 0>>)
    /\ LET at == UnpackU16(d, 17 * 2048 + \h47) * 2048
       IN /\ at + 32 <= Size(d)
          /\ ByteAt(d, at) = 1
          /\ word_sum(d, at) = 0

file_record_off(d) ==
    IF /\ Size(d) >= 17 * 2048
       /\ BytesAt(d, 16 * 2048, <<1, 67, 68, 48, 48, 49>>)
       /\ BytesAt(d, 16 * 2048 + 156 + 4, <<0, 0>>)
    THEN LET root == UnpackU16(d, 16 * 2048 + 156 + 2) * 2048
         IN IF root + 2048 > Size(d) THEN -1
            ELSE LET r2 == root + ByteAt(d, root)
                     r3 == r2 + ByteAt(d, r2)
                 IN IF ByteAt(d, r3) >= 33 /\ ByteAt(d, r3 + 5) = 0
                       /\ ByteAt(d, r3 + 13) = 0
                    THEN r3 ELSE -1
    ELSE -1

iso_candidates ==
    LET x == find_tool(env.tools, <<"xorriso">>)
        g == find_tool(env.tools, <<"genisoimage", "mkisofs">>)
    IN (IF x # "None" THEN <<x>> ELSE <<>>) \o (IF g # "None" THEN <<g>> ELSE <<>>)

\* create_iso() has run in this build
IsoStepDone == iso_by # "none"

\* C12: once the optical step has run, the build has not aborted and
\* dist/portix.iso exists; the tools that were run are the found ones in the
\* order xorriso, genisoimage / mkisofs, each one run only after the ones
\* before it failed and none after the first success; the image is the
\* built-in copy exactly when no tool that was run succeeded, and otherwise
\* the volume of the one tool that did.
C12_OpticalFallbackChain ==
    IsoStepDone =>
        /\ pc \in {"create_vdi", "create_vmdk", "create_ventoy_sim", "summary", "done"}
        /\ rc = 0
        /\ Exists(fs, ISO_IMG)
        /\ Len(iso_runs) <= Len(iso_candidates)
        /\ \A i \in 1..Len(iso_runs) :
              /\ iso_runs[i].tool = iso_candidates[i]
              /\ i < Len(iso_runs) => ~iso_runs[i].ok
        /\ Len(iso_runs) < Len(iso_candidates) => iso_runs[Len(iso_runs)].ok
        /\ iso_by = "builtin" <=> \A i \in 1..Len(iso_runs) : ~iso_runs[i].ok
        /\ iso_by # "builtin" =>
              /\ iso_runs[Len(iso_runs)] = [tool |-> iso_by, ok |-> TRUE]
              /\ SameBytes(iso_data, external_iso(img_data))
        /\ iso_by = "builtin" => SameBytes(iso_data, img_data)

C12_Witness ==
    /\ pc = "done"
    /\ env.prev = "none"
    /\ iso_runs = <<[tool |-> "xorriso", ok |-> FALSE], [tool |-> "mkisofs", ok |-> FALSE]>>
    /\ iso_by = "builtin"
    /\ Exists(fs, ISO_IMG)

(***************************************************************************)
(* C13: a container format whose conversion did not succeed.               *)
(***************************************************************************)
\* create_vdi() and create_vmdk() have run in this build
ConvertersDone == pc \in {"create_ventoy_sim", "summary", "done"} /\ ~arg("--clean")
                    /\ ~arg("--no-vm")

\* C13: when qemu-img is not found or exits with a non-zero status for a
\* format, the build goes on without aborting and, from the end of the
\* converter steps to the end of the build, dist holds no file of that
\* format, not even one left by an earlier build.
C13_FailedFormatOmitted ==
    ConvertersDone =>
        /\ rc = 0
        /\ "WARN VDI" \in log => ~Exists(fs, VDI_IMG)
        /\ "WARN VMDK" \in log => ~Exists(fs, VMDK_IMG)

(***************************************************************************)
(* C14: building again from the same artifacts.                            *)
(***************************************************************************)
\* the file system after the steps of main() that write the raw image, the
\* optical image and the nested container are run again on the tree f with
\* the artifacts of this build, the optical strategy ending as it did
rebuilt(f) ==
    LET f1 == create_raw(f, sectors_of(f, KERNELBIN))
        f2 == IF arg("--no-iso") THEN f1
              ELSE IF iso_by = "builtin" THEN iso_as_disk(f1)
              ELSE run_iso_tool(f1, TRUE)
    IN create_ventoy_sim(f2)

\* the tree holding the artifacts of this build and no output of any build
artifacts_only ==
    [p \in Paths |-> IF p \in Outputs THEN NoFile ELSE fs[p]]

\* the images a build writes: the raw image and its copy, the nested
\* container, and the optical image unless --no-iso is given
BuiltImages ==
    {DISK_IMG, RAW_COPY, VSIM_IMG} \cup (IF arg("--no-iso") THEN {} ELSE {ISO_IMG})

SkipOptions == {"--no-iso", "--no-vm", "--no-run"}

\* the file at p is the one the build found
Untouched(p) == fs[p] = InitialFS(env.prev)[p]

\* C15 as stated, in what it says of the nested container: some option of
\* the build skips it, so that whenever that option is given the build ends
\* with the nested container not written; the optical image and the
\* hypervisor containers likewise, by --no-iso and --no-vm.
C15_EachOutputSkippableAsStated ==
    (pc = "done" /\ ~arg("--clean")) =>
        /\ arg("--no-iso") => Untouched(ISO_IMG)
        /\ arg("--no-vm") => Untouched(VDI_IMG) /\ Untouched(VMDK_IMG)
        /\ \E o \in SkipOptions : arg(o) => Untouched(VSIM_IMG)

\* C15 (amended): --no-iso keeps create_iso from running and leaves
\* dist/portix.iso as the build found it; --no-vm does the same for
\* create_vdi, create_vmdk and their two files; the nested container has no
\* such option and is written by every build that reaches the end, like the
\* raw image; an output that is not skipped is produced (a container
\* format: produced or reported with a warning).
C15_SkipOptions ==
    ~arg("--clean") =>
        /\ arg("--no-iso") =>
              /\ pc # "create_iso"
              /\ iso_by = "none" /\ iso_runs = <<>>
              /\ Untouched(ISO_IMG)
        /\ arg("--no-vm") =>
              /\ pc \notin {"create_vdi", "create_vmdk"}
              /\ Untouched(VDI_IMG) /\ Untouched(VMDK_IMG)
              /\ log \cap {"WARN VDI", "WARN VMDK"} = {}
        /\ pc = "done" =>
              /\ Exists(fs, DISK_IMG) /\ StatSize(fs, DISK_IMG) = raw_nbytes(ks)
              /\ SameBytes(ReadBytes(fs, RAW_COPY), img_data)
              /\ Exists(fs, VSIM_IMG)
              /\ SameBytes(vsim_data, ventoy_container(img_data))
              /\ ~arg("--no-iso") => IsoStepDone /\ Exists(fs, ISO_IMG)
              /\ ~arg("--no-vm") =>
                    /\ "WARN VDI" \in log
                         \/ SameBytes(ReadBytes(fs, VDI_IMG), external_vdi(img_data))
                    /\ "WARN VMDK" \in log
                         \/ SameBytes(ReadBytes(fs, VMDK_IMG), external_vmdk(img_data))

C15_Witness ==
    /\ pc = "done"
    /\ env.argv = SkipOptions
    /\ env.prev = "stale"
    /\ Untouched(ISO_IMG) /\ Untouched(VDI_IMG) /\ Untouched(VMDK_IMG)
    /\ StatSize(fs, ISO_IMG) = 9 * MiB
    /\ ~Untouched(VSIM_IMG)
    /\ StatSize(fs, VSIM_IMG) = 64 * MiB

(***************************************************************************)
(* C16: the order of the steps of a build.  pc names the step main() runs  *)
(* next, so what has run before it shows in the state it finds.            *)
(***************************************************************************)
DerivedSteps == {"create_iso", "create_vdi", "create_vmdk", "create_ventoy_sim"}
DerivedOutputs == {ISO_IMG, VDI_IMG, VMDK_IMG, VSIM_IMG}

\* no derived step has run
NoDerivedStepYet ==
    /\ iso_by = "none" /\ iso_runs = <<>>
    /\ \A p \in DerivedOutputs : Untouched(p)
    /\ log \cap {"WARN VDI", "WARN VMDK"} = {}

\* the raw image is written in full and carries its partition entry, the
\* kernel placed where, and as long as, the loader was told
RawComplete ==
    /\ stage2_defs.set
    /\ part # <<>>
    /\ Size(img_data) = raw_nbytes(stage2_defs.KERNEL_SECTORS)
    /\ total_sectors(img_data) = raw_image_sectors(stage2_defs.KERNEL_SECTORS)
    /\ SameBytes(Slice(img_data, stage2_defs.KERNEL_LBA * 512,
                       stage2_defs.KERNEL_LBA * 512 + kernel_size),
                 ReadBytes(fs, KERNELBIN))
    /\ kernel_size <= stage2_defs.KERNEL_SECTORS * 512
    /\ BytesAt(img_data, entry_off, part)
    /\ SameBytes(ReadBytes(fs, RAW_COPY), img_data)

\* C16: the kernel is measured before the loader is assembled, the loader
\* is assembled before the raw image is written, and the raw image is
\* written in full and partition-injected before any of the optical,
\* converter and nested steps; the loader is given the sector count
\* measured for the kernel and the start LBA 65, the values with which the
\* raw-image step places the kernel.
C16_StepOrder ==
    ~arg("--clean") =>
        /\ pc \in {"main", "check_tools", "assemble_boot", "build_kernel"} =>
              ~stage2_defs.set /\ part = <<>> /\ NoDerivedStepYet
        /\ pc = "assemble_stage2" =>
              /\ ks = sectors_of(fs, KERNELBIN)
              /\ ~stage2_defs.set /\ part = <<>> /\ NoDerivedStepYet
        /\ pc = "create_raw" =>
              /\ stage2_defs = [set |-> TRUE, KERNEL_SECTORS |-> ks, KERNEL_LBA |-> 65]
              /\ ks = sectors_of(fs, KERNELBIN)
              /\ part = <<>> /\ NoDerivedStepYet
              /\ fs[DISK_IMG] = InitialFS(env.prev)[DISK_IMG]
        /\ pc \in DerivedSteps \cup {"summary", "done"} =>
              /\ stage2_defs = [set |-> TRUE, KERNEL_SECTORS |-> ks, KERNEL_LBA |-> 65]
              /\ RawComplete
        /\ pc = AfterRaw => NoDerivedStepYet

C16_Witness ==
    /\ pc = "create_iso"
    /\ env.prev = "stale"
    /\ kernel_size = 1500
    /\ stage2_defs = [set |-> TRUE, KERNEL_SECTORS |-> 3, KERNEL_LBA |-> 65]
    /\ RawComplete
    /\ ByteAt(img_data, 65 * 512) = \hCC
    /\ NoDerivedStepYet

(***************************************************************************)
(* C17: the ending CHS values and their fields.                            *)
(***************************************************************************)
\* the sector and cylinder read back from bytes 6 and 7 of a partition entry
packed_sect(entry) == entry[7] % 64
packed_cyl(entry)  == (entry[7] \div 64) * 256 + entry[8]

\* C17: for the raw image of every kernel the build accepts, the ending
\* sector is in 1..63, the ending head in 0..254 and the ending cylinder in
\* 0..1023, so that the three values are read back unchanged from bytes
\* 5..7 of the partition entry.
C17_ChsFitsFields ==
    pc = "chs_done" =>
        LET lba == end_lba(raw_image_sectors(ks))
        IN /\ end_sect(lba) \in 1..63
           /\ end_head(lba) \in 0..254
           /\ end_cyl(lba) \in 0..1023
           /\ part[6] = end_head(lba)
           /\ packed_sect(part) = end_sect(lba)
           /\ packed_cyl(part) = end_cyl(lba)

(***************************************************************************)
(* C18: the short jump of the container's boot record.                     *)
(***************************************************************************)
\* the offset in sector 0 at which main_code is placed: full_code is
\* chainload_asm followed by main_code
main_code_off == Len(chainload_asm)

\* the offset a short jump EB rel8 at offset at transfers control to (rel8
\* taken as the non-negative displacement it is here)
short_jump_target(d, at) == at + 2 + ByteAt(d, at + 1)

\* C18: sector 0 of the nested container opens with EB rel8, and the jump
\* lands on the first byte of main_code: 2 + rel8 is the offset at which
\* main_code is placed, and the bytes from there on are main_code.
C18_JumpLandsOnMainCode ==
    VsimBuilt =>
        /\ ByteAt(vsim_data, 0) = \hEB
        /\ ByteAt(vsim_data, 1) < 128
        /\ short_jump_target(vsim_data, 0) = main_code_off
        /\ BytesAt(vsim_data, short_jump_target(vsim_data, 0), main_code)

(***************************************************************************)
(* C19: the two emulators of --mode=both.                                  *)
(***************************************************************************)
\* the files the emulator of thread t holds open for writing
open_for_writing(t) ==
    IF qemu[t].st = "running" THEN {qemu[t].drive, qemu[t].serial, qemu[t].debug}
    ELSE {}

\* C19: in mode both, no file is open for writing in the two emulators at
\* once (their disk images differ, and so do their serial and debug logs),
\* whether or not dist/portix.iso exists, and run_qemu has returned only
\* when both emulators have exited.
C19_NoSharedWritableFile ==
    mode = "both" =>
        /\ open_for_writing("t1") \cap open_for_writing("t2") = {}
        /\ (qemu["t1"].st = "running" /\ qemu["t2"].st = "running") =>
              /\ qemu["t1"].drive # qemu["t2"].drive
              /\ qemu["t1"].serial # qemu["t2"].serial
              /\ qemu["t1"].debug # qemu["t2"].debug
        /\ (pc = "done" /\ ~arg("--clean")) =>
              qemu["t1"].st = "exited" /\ qemu["t2"].st = "exited"

====
